---- MODULE Spec2Model ----
(***************************************************************************)
(* A model of aogiac.py: the override store (_faq_cache, faq.json), the    *)
(* knowledge resolver tra_cuu_kien_thuc with its four stages, the watcher  *)
(* handler FAQFileHandler.on_modified, start_faq_watcher and main().       *)
(*                                                                         *)
(* Four specifications:                                                    *)
(*   Spec       the program as main() runs it: the main thread and the     *)
(*              operator editing faq.json.  start_faq_watcher returns the  *)
(*              observer before any handler is scheduled (line 97), so no  *)
(*              thread ever calls on_modified.                             *)
(*   SpecWatch  Spec plus an observer thread on which a                    *)
(*              FAQFileHandler(FAQ_PATH) is scheduled (the wiring lines    *)
(*              99-102 describe), delivering on_modified for every write   *)
(*              of the file, one event at a time, during an interactive    *)
(*              session started with --watch.                              *)
(*                                                                         *)
(*   SpecScore  do_ao_giac and _print_result applied to an answer and a    *)
(*              reference taken from bounded sets of strings.              *)
(*   SpecWiki   tra_cuu_wikipedia statement by statement, for a question   *)
(*              and titles taken from bounded sets of strings.             *)
(*                                                                         *)
(* Statements are executed one at a time: between two statements of one    *)
(* thread the other thread and the operator may take steps.                *)
(***************************************************************************)
EXTENDS Naturals, Sequences, FiniteSets, TLC

VARIABLES
    WATCHDOG_AVAILABLE, \* line 16/18: whether the watchdog import succeeded
    args,               \* parsed command line: [watch, mode]
    mainPc,             \* position of the main thread
    calls,              \* resolver calls made by the session so far
    observer,           \* main()'s local `observer'
    raising,            \* an exception is propagating out of main()'s try block
    file,               \* faq.json on disk: [exists, mtime, content]
    clock,              \* last modification time issued by the file system
    faq_cache,          \* _faq_cache: [mtime, data]
    cau_hoi,            \* tra_cuu_kien_thuc: the question of the current call
    faq,                \* tra_cuu_kien_thuc: local `faq'
    mtime,              \* _load_faq_if_updated: local `mtime'
    loaded,             \* value of _load_faq_from_disk(path) not yet stored
    ket_qua,            \* value returned by the last tra_cuu_kien_thuc call
    watching,           \* an observer thread has a FAQFileHandler scheduled
    pending,            \* modification events of faq.json not yet dispatched
    hPc,                \* position of the observer thread inside on_modified
    event,              \* on_modified: event.src_path
    hLoaded,            \* on_modified: value of _load_faq_from_disk not yet stored
    hMtime,             \* on_modified: value of the right-hand side of line 82
    trace,              \* history: stages invoked by the current call, in order
    yields,             \* history: for each completed stage, [hit, val]: whether it yielded, and what
    cache0,             \* history: _faq_cache when the current call began
    reads,              \* history: _load_faq_from_disk calls made by the current call
    sawAbsent,          \* history: line 60 of the current call found no file
    readKind,           \* history: kind of content the current call's line 63 read
    failures,           \* history: stages of the current call in which an external operation failed
    scorePc,            \* scoring: position
    cau_tra_loi_llm,    \* do_ao_giac: the answer, as characters
    cau_tra_loi_tham_chieu, \* do_ao_giac: the reference, as characters
    diem,               \* value of do_ao_giac, a fraction [num, den]
    verdict,            \* _print_result: the line printed for the score
    wikiPc,             \* tra_cuu_wikipedia: position
    wiki_cau_hoi,       \* tra_cuu_wikipedia: the question, as characters
    wikipedia_site,     \* what wikipedia.search does for the question: [raises, titles]
    search_results,     \* tra_cuu_wikipedia: local `search_results'
    best_title,         \* tra_cuu_wikipedia: local `best_title'
    requested,          \* history: the wikipedia.summary calls made: [title, outcome]
    wiki_ret            \* value returned by tra_cuu_wikipedia

vars == << WATCHDOG_AVAILABLE, args, mainPc, calls, observer, raising, file, clock,
           faq_cache, cau_hoi, faq, mtime, loaded, ket_qua, watching, pending,
           hPc, event, hLoaded, hMtime, trace, yields, cache0, reads,
           sawAbsent, readKind, failures, scorePc, cau_tra_loi_llm,
           cau_tra_loi_tham_chieu, diem, verdict, wikiPc, wiki_cau_hoi,
           wikipedia_site, search_results, best_title, requested, wiki_ret >>

(***************************************************************************)
(* Bounds of the model.                                                    *)
(***************************************************************************)
MaxEdits == 2       \* writes of faq.json by the operator
MaxCalls == 2       \* questions asked in one interactive session
MaxAnsLen == 5      \* characters of an answer given to do_ao_giac
MaxRefLen == 2      \* characters of a reference given to do_ao_giac
MaxTitleLen == 2    \* characters of a question or a title in tra_cuu_wikipedia
MaxResults == 2     \* titles returned by wikipedia.search

(***************************************************************************)
(* Questions, by the shapes tra_cuu_wikidata tests for.  Strings of the    *)
(* program are written here without their diacritics.                     *)
(***************************************************************************)
Q_CAPITAL == "Thu do cua Phap la gi"
Q_PRESIDENT == "Tong thong Hoa Ky la ai"
Q_BOIL == "Nhiet do nuoc soi"
Questions == {Q_CAPITAL, Q_PRESIDENT, Q_BOIL}

HasThuDo(q) == q = Q_CAPITAL
MatchCountry(q) == q = Q_CAPITAL
HasTongThongHoaKy(q) == q = Q_PRESIDENT
HasNuocSoi(q) == q = Q_BOIL

NONE == "<None>"    \* Python's None (a JSON null), as a value of the mapping
NoQuestion == ""

(***************************************************************************)
(* faq.json.  A content is invalid JSON, a JSON value that is not an       *)
(* object, or an object: a mapping from keys to values.                    *)
(***************************************************************************)
FaqKeys == {Q_CAPITAL}
FaqValues == {"", NONE, "Paris"}
EmptyMap == [k \in {} |-> ""]
Mappings == UNION {[K -> FaqValues] : K \in SUBSET FaqKeys}

Contents == {[kind |-> "invalid", map |-> EmptyMap],
             [kind |-> "array", map |-> EmptyMap]}
            \cup {[kind |-> "object", map |-> m] : m \in Mappings}

NoFile == [exists |-> FALSE, mtime |-> 0, content |-> [kind |-> "invalid", map |-> EmptyMap]]

FAQ_PATH == "faq.json"
OTHER_PATH == "other.json"

(***************************************************************************)
(* _load_faq_from_disk: the object of the file, and {} when the file is    *)
(* absent, cannot be parsed, or holds something that is not an object.     *)
(***************************************************************************)
\* faulty variant: a content that fails to parse lets the exception escape as the previous mapping
load_faq_keep_previous(f) ==
    IF f.exists /\ f.content.kind = "object" THEN f.content.map
    ELSE IF f.exists THEN faq_cache.data ELSE EmptyMap

load_faq_from_disk(f) ==
    IF f.exists /\ f.content.kind = "object" THEN f.content.map ELSE EmptyMap

(***************************************************************************)
(* tra_cuu_wikidata.  wd is what the knowledge graph does for this call:   *)
(* "error" (the query raises), "empty" (no entity, or the attribute is     *)
(* absent or has no label) or "label" (the attribute's label is found).    *)
(***************************************************************************)
WikidataOutcomes == {"error", "empty", "label"}
WD_CAPITAL == "Thu do cua Phap la Paris."
WD_PRESIDENT == "Tong thong Hoa Ky hien tai la X."
WD_BOIL == "100C"

\* an exception leaving a function, as the value of a call of it
RAISED == "<raised>"
Escapes(v) == v = RAISED

\* the question makes tra_cuu_wikidata query the knowledge graph, and the query raises
WikidataFailed(q, wd) ==
    /\ wd = "error"
    /\ (HasThuDo(q) /\ MatchCountry(q)) \/ HasTongThongHoaKy(q)

\* faulty variant: the queries are made outside the try block
tra_cuu_wikidata_unguarded(q, wd) ==
    IF WikidataFailed(q, wd) THEN RAISED
    ELSE IF HasThuDo(q) /\ MatchCountry(q) /\ wd = "label" THEN WD_CAPITAL
    ELSE IF HasTongThongHoaKy(q) /\ wd = "label" THEN WD_PRESIDENT
    ELSE IF HasNuocSoi(q) THEN WD_BOIL
    ELSE ""

tra_cuu_wikidata(q, wd) ==
    IF HasThuDo(q) /\ MatchCountry(q) /\ wd = "error" THEN ""
    ELSE IF HasThuDo(q) /\ MatchCountry(q) /\ wd = "label" THEN WD_CAPITAL
    ELSE IF HasTongThongHoaKy(q) /\ wd = "error" THEN ""
    ELSE IF HasTongThongHoaKy(q) /\ wd = "label" THEN WD_PRESIDENT
    ELSE IF HasNuocSoi(q) THEN WD_BOIL
    ELSE ""

(***************************************************************************)
(* tra_cuu_wikipedia.  w is what the encyclopedia does for this call.      *)
(***************************************************************************)
WikiSearch == {"error", "none", "low", "good"}
WikiSummary == {"error", "empty", "text"}
WikiOutcomes == [search : WikiSearch, summary : WikiSummary]
SummaryText(lang) == IF lang = "vi" THEN "Tom tat (vi)." ELSE "Summary (en)."

\* wikipedia.search raises, or wikipedia.summary raises for the chosen title
WikiFailed(w) ==
    \/ w.search = "error"
    \/ w.search = "good" /\ w.summary = "error"

tra_cuu_wikipedia(q, lang, w) ==
    IF w.search = "error" THEN ""
    ELSE IF w.search = "none" THEN ""
    ELSE IF w.search = "low" THEN ""
    ELSE IF w.summary = "error" THEN ""
    ELSE IF w.summary = "empty" THEN ""
    ELSE SummaryText(lang)

tra_cuu_wikipedia_en(q, w) == tra_cuu_wikipedia(q, "en", w)

SENTINEL == "Khong co du lieu tham chieu phu hop."

Order == << "wikidata", "faq", "vi", "en" >>

(***************************************************************************)
(* start_faq_watcher (lines 92-97): None without watchdog, otherwise a     *)
(* fresh Observer returned as constructed: nothing scheduled, not started. *)
(***************************************************************************)
ObserverNone == [state |-> "None", started |-> FALSE, watches |-> {}]

start_faq_watcher ==
    IF ~WATCHDOG_AVAILABLE THEN ObserverNone
    ELSE [state |-> "created", started |-> FALSE, watches |-> {}]

(***************************************************************************)
(* Text.  A string is the sequence of its characters; a character of the   *)
(* program that is not ASCII is written as its base letter followed by its *)
(* marks in the VNI convention (o6 is o with circumflex, o1 o with acute),   *)
(* one element of the sequence.                                            *)
(***************************************************************************)
\* str.lower, on the characters the model uses
Lower(c) ==
    IF c = "H" THEN "h"
    ELSE IF c = "P" THEN "p"
    ELSE IF c = "K" THEN "k"
    ELSE c

lower(text) == [i \in 1..Len(text) |-> Lower(text[i])]

\* whitespace, for str.strip and str.split
IsSpace(c) == c = " "

\* \w of the re module: letters (accented ones included), digits, underscore
IsWord(c) == c \notin {" ", "."}

RECURSIVE lstrip(_)
lstrip(text) ==
    IF text # << >> /\ IsSpace(Head(text)) THEN lstrip(Tail(text)) ELSE text

RECURSIVE rstrip(_)
rstrip(text) ==
    IF text # << >> /\ IsSpace(text[Len(text)])
    THEN rstrip(SubSeq(text, 1, Len(text) - 1))
    ELSE text

strip(text) == rstrip(lstrip(text))

\* str.split(): the maximal runs of non-whitespace characters
RECURSIVE split(_)
split(text) ==
    LET t == lstrip(text)
        stops == {i \in 1..Len(t) : IsSpace(t[i])}
        n == IF stops = {} THEN Len(t) + 1
             ELSE CHOOSE i \in stops : \A k \in stops : i <= k
    IN  IF t = << >> THEN << >>
        ELSE << SubSeq(t, 1, n - 1) >> \o split(SubSeq(t, n, Len(t)))

\* line 184-185: re.sub(r'\W+', '', text.lower())
normalize(text) == SelectSeq(lower(text), IsWord)

\* x in y, for strings
Contains(x, y) ==
    \E k \in 0..(Len(y) - Len(x)) : SubSeq(y, k + 1, k + Len(x)) = x

(***************************************************************************)
(* difflib.SequenceMatcher(None, a, b).ratio(): 2.0 * M / T with M the     *)
(* size of the matching blocks and T = len(a) + len(b); 1.0 when T = 0.    *)
(* No element is junk (isjunk is None, and the automatic heuristic needs   *)
(* 200 elements).  Ratios are kept as fractions [num, den].                *)
(***************************************************************************)
RECURSIVE RunLen(_, _, _, _, _, _)
RunLen(a, b, i, j, ahi, bhi) ==
    IF i <= ahi /\ j <= bhi /\ a[i] = b[j]
    THEN 1 + RunLen(a, b, i + 1, j + 1, ahi, bhi)
    ELSE 0

\* the longest block a[i..i+size-1] = b[j..j+size-1] inside a[alo..ahi] and
\* b[blo..bhi]; of the longest, the one starting earliest in a, and of
\* those the one starting earliest in b
find_longest_match(a, b, alo, ahi, blo, bhi) ==
    LET P == (alo..ahi) \X (blo..bhi)
        L == [p \in P |-> RunLen(a, b, p[1], p[2], ahi, bhi)]
        sizes == {L[p] : p \in P}
        size == CHOOSE k \in sizes : \A n \in sizes : n <= k
        starts == {p \in P : L[p] = size}
        besti == CHOOSE i \in {p[1] : p \in starts} :
                     \A p \in starts : i <= p[1]
        bestj == CHOOSE j \in {p[2] : p \in {r \in starts : r[1] = besti}} :
                     \A p \in {r \in starts : r[1] = besti} : j <= p[2]
    IN  IF P = {} THEN [i |-> alo, j |-> blo, size |-> 0]
        ELSE [i |-> besti, j |-> bestj, size |-> size]

\* get_matching_blocks: the longest block, then the same to its left and
\* to its right; the value is the total size of the blocks
RECURSIVE matches(_, _, _, _, _, _)
matches(a, b, alo, ahi, blo, bhi) ==
    LET m == find_longest_match(a, b, alo, ahi, blo, bhi)
    IN  IF m.size = 0 THEN 0
        ELSE m.size
             + matches(a, b, alo, m.i - 1, blo, m.j - 1)
             + matches(a, b, m.i + m.size, ahi, m.j + m.size, bhi)

ONE == [num |-> 1, den |-> 1]
ZERO == [num |-> 0, den |-> 1]
Less(x, y) == x.num * y.den < y.num * x.den
Same(x, y) == x.num * y.den = y.num * x.den

SequenceMatcher_ratio(a, b) ==
    IF Len(a) + Len(b) = 0 THEN ONE
    ELSE [num |-> 2 * matches(a, b, 1, Len(a), 1, Len(b)), den |-> Len(a) + Len(b)]

(***************************************************************************)
(* do_ao_giac, lines 183-198.                                              *)
(***************************************************************************)
\* line 190: len(ans.split()) <= 2
IsShortAnswer(ans) == Len(split(ans)) <= 2

SHORT_THRESHOLD == [num |-> 6, den |-> 10]

\* faulty variant: a ratio of exactly 0.6 is kept
AtOrAboveShortThreshold(r) == ~Less(r, SHORT_THRESHOLD)

\* line 194: ratio > 0.6
AboveShortThreshold(r) == Less(SHORT_THRESHOLD, r)

do_ao_giac(llm, tham_chieu) ==
    LET ans == strip(llm)
        ref == strip(tham_chieu)
        ratio == SequenceMatcher_ratio(lower(ans), lower(ref))
    IN  IF IsShortAnswer(ans)
        THEN IF Contains(normalize(ans), normalize(ref)) THEN ONE
             ELSE IF AboveShortThreshold(ratio) THEN ratio
             ELSE ZERO
        ELSE ratio

\* line 181, as characters
SentinelChars ==
    << "K", "h", "o6", "n", "g", " ", "c", "o1", " ", "d", "u74", " ",
       "l", "i", "e65", "u", " ", "t", "h", "a", "m", " ",
       "c", "h", "i", "e61", "u", " ", "p", "h", "u2", " ", "h", "o75", "p", "." >>

\* line 205: diem < 0.7, and the line printed
VERDICT_THRESHOLD == [num |-> 7, den |-> 10]
HALLUCINATION == "Co the co ao giac!"
MATCHES_REFERENCE == "Cau tra loi dung voi tham chieu."
print_verdict(d) == IF Less(d, VERDICT_THRESHOLD) THEN HALLUCINATION ELSE MATCHES_REFERENCE

\* all strings over chars of length lo..hi
Strings(chars, lo, hi) == UNION {[1..n -> chars] : n \in lo..hi}

\* answers and references the scoring is applied to
AnsChars == {"h", "P", " "}
RefChars == {"h", "p", "."}
BoundaryRef == << "h", "h", "h", ".", "." >>
Answers == Strings(AnsChars, 0, MaxAnsLen)
References == Strings(RefChars, 0, MaxRefLen) \cup {SentinelChars, BoundaryRef}

(***************************************************************************)
(* The title selection of tra_cuu_wikipedia, lines 139-143.                *)
(***************************************************************************)
\* line 141: the key of max()
RatioTo(q, title) == SequenceMatcher_ratio(lower(q), lower(title))

\* max(search_results, key=...): the first of the titles of maximal ratio
max_by_ratio(q, results) ==
    LET i == CHOOSE i \in 1..Len(results) :
                 /\ \A j \in 1..Len(results) :
                       ~Less(RatioTo(q, results[i]), RatioTo(q, results[j]))
                 /\ \A j \in 1..(i - 1) :
                       Less(RatioTo(q, results[j]), RatioTo(q, results[i]))
    IN  results[i]

HALF == [num |-> 1, den |-> 2]

\* faulty variant: a ratio of exactly 0.5 is rejected too
BelowOrAtHalf(r) == ~Less(HALF, r)

\* line 143: ratio < 0.5
BelowHalf(r) == Less(r, HALF)

\* questions, and what wikipedia.search does with them: raise, or titles
QuestionChars == {"h", "P"}
TitleChars == {"H", "p"}
WikiQuestions == Strings(QuestionChars, 0, MaxTitleLen)
Titles == Strings(TitleChars, 1, MaxTitleLen)
WikiSites ==
    {[raises |-> TRUE, titles |-> << >>]}
    \cup [raises : {FALSE}, titles : Strings(Titles, 0, MaxResults)]

\* the language of the call of line 173
WIKI_LANG == "vi"

\* what the search did, in the terms of WikiSearch
SearchClass(q, site) ==
    IF site.raises THEN "error"
    ELSE IF site.titles = << >> THEN "none"
    ELSE IF BelowHalf(RatioTo(q, max_by_ratio(q, site.titles))) THEN "low"
    ELSE "good"


(***************************************************************************)
(* Initial states.                                                         *)
(***************************************************************************)
InitCommon ==
    /\ WATCHDOG_AVAILABLE \in BOOLEAN
    /\ args \in [watch : BOOLEAN, mode : {"interactive", "single", "usage"}]
    /\ mainPc = "start"
    /\ calls = 0
    /\ observer = ObserverNone
    /\ raising = FALSE
    /\ file = NoFile
    /\ clock = 0
    /\ faq_cache = [mtime |-> 0, data |-> EmptyMap]
    /\ cau_hoi = NoQuestion
    /\ faq = EmptyMap
    /\ mtime = 0
    /\ loaded = EmptyMap
    /\ ket_qua = ""
    /\ pending = 0
    /\ hPc = "idle"
    /\ event = FAQ_PATH
    /\ hLoaded = EmptyMap
    /\ hMtime = 0
    /\ trace = << >>
    /\ yields = << >>
    /\ cache0 = [mtime |-> 0, data |-> EmptyMap]
    /\ reads = 0
    /\ sawAbsent = FALSE
    /\ readKind = "none"
    /\ failures = {}

\* no scoring and no statement-by-statement lookup in progress
ScoreIdle ==
    /\ scorePc = "off"
    /\ cau_tra_loi_llm = << >>
    /\ cau_tra_loi_tham_chieu = << >>
    /\ diem = ZERO
    /\ verdict = ""

WikiIdle ==
    /\ wikiPc = "off"
    /\ wiki_cau_hoi = << >>
    /\ wikipedia_site = [raises |-> FALSE, titles |-> << >>]
    /\ search_results = << >>
    /\ best_title = << >>
    /\ requested = << >>
    /\ wiki_ret = ""

Init == InitCommon /\ watching = FALSE /\ ScoreIdle /\ WikiIdle

mainvars == << mainPc, calls, observer, raising >>
hvars == << hPc, event, hLoaded, hMtime >>
histvars == << trace, yields, cache0, reads, sawAbsent, readKind, failures >>
scorevars == << scorePc, cau_tra_loi_llm, cau_tra_loi_tham_chieu, diem, verdict >>
wikivars == << wikiPc, wiki_cau_hoi, wikipedia_site, search_results, best_title,
              requested, wiki_ret >>
textvars == << scorevars, wikivars >>
envvars == << WATCHDOG_AVAILABLE, args, watching >>
filevars == << file, clock, pending >>
localvars == << cau_hoi, faq, mtime, loaded, ket_qua >>

(***************************************************************************)
(* The operator: writes and deletions of faq.json.  Every write gives the  *)
(* file a modification time it never had before.  Edits made after the     *)
(* process has ended are of no interest.                                   *)
(***************************************************************************)
Running == mainPc \notin {"exited", "raised"}

WriteFile ==
    /\ Running
    /\ clock < MaxEdits
    /\ \E c \in Contents :
          file' = [exists |-> TRUE, mtime |-> clock + 1, content |-> c]
    /\ clock' = clock + 1
    /\ pending' = IF watching THEN pending + 1 ELSE pending
    /\ UNCHANGED << envvars, textvars, mainvars, faq_cache, localvars,
                    hvars, histvars >>

DeleteFile ==
    /\ Running
    /\ file.exists
    /\ file' = NoFile
    /\ UNCHANGED << envvars, textvars, mainvars, clock, pending, faq_cache,
                    localvars, hvars, histvars >>

(***************************************************************************)
(* main(), lines 218-220: the watcher is asked for only under --watch.     *)
(***************************************************************************)
MainStartWatcher ==
    /\ mainPc = "start"
    /\ observer' = IF args.watch THEN start_faq_watcher ELSE ObserverNone
    /\ mainPc' = "session"
    /\ UNCHANGED << envvars, textvars, calls, raising, filevars, faq_cache, localvars,
                    hvars, histvars >>

(***************************************************************************)
(* main(), lines 222-245: the session.  It asks the resolver about a       *)
(* question (once in single-shot mode, repeatedly in interactive mode),    *)
(* leaves by the exit keyword or the usage message, or is interrupted by   *)
(* an exception of input().                                                *)
(***************************************************************************)
MayAsk ==
    \/ args.mode = "interactive" /\ calls < MaxCalls
    \/ args.mode = "single" /\ calls = 0

SessionLeave ==
    /\ mainPc = "session"
    /\ \/ args.mode = "usage"
       \/ args.mode = "interactive"
       \/ args.mode = "single" /\ calls > 0
    /\ mainPc' = "L247"
    /\ UNCHANGED << envvars, textvars, calls, observer, raising, filevars, faq_cache,
                    localvars, hvars, histvars >>

SessionError ==
    /\ mainPc = "session"
    /\ args.mode = "interactive"
    /\ raising' = TRUE
    /\ mainPc' = "L247"
    /\ UNCHANGED << envvars, textvars, calls, observer, filevars, faq_cache, localvars,
                    hvars, histvars >>

(***************************************************************************)
(* tra_cuu_kien_thuc, lines 165-167: the structured lookup.                *)
(***************************************************************************)
\* faulty variant: the override store is consulted before the structured result is returned
AfterWikidataAlwaysFaq(kq) == "L60"

AfterWikidata(kq) == IF kq # "" THEN "returned" ELSE "L60"

Resolve_Wikidata ==
    /\ mainPc = "session"
    /\ MayAsk
    /\ \E q \in Questions, wd \in WikidataOutcomes :
          LET kq_wikidata == tra_cuu_wikidata(q, wd) IN
          /\ cau_hoi' = q
          /\ ket_qua' = kq_wikidata
          /\ mainPc' = IF Escapes(kq_wikidata) THEN "L247" ELSE AfterWikidata(kq_wikidata)
          /\ raising' = (raising \/ Escapes(kq_wikidata))
          /\ yields' = << [hit |-> kq_wikidata # "" /\ ~Escapes(kq_wikidata),
                           val |-> kq_wikidata] >>
          /\ failures' = IF WikidataFailed(q, wd) THEN {"wikidata"} ELSE {}
    /\ calls' = calls + 1
    /\ trace' = << "wikidata" >>
    /\ cache0' = faq_cache
    /\ reads' = 0
    /\ sawAbsent' = FALSE
    /\ readKind' = "none"
    /\ faq' = EmptyMap
    /\ mtime' = 0
    /\ loaded' = EmptyMap
    /\ UNCHANGED << envvars, textvars, observer, filevars, faq_cache, hvars >>

(***************************************************************************)
(* _load_faq_if_updated, lines 59-70, called from line 169.  One action    *)
(* per statement; pcs are the line numbers.                                *)
(***************************************************************************)
mainframe == << envvars, textvars, calls, observer, raising, cau_hoi, ket_qua, hvars >>

\* line 60: if path.exists()
Pull_Exists ==
    /\ mainPc = "L60"
    /\ trace' = Append(trace, "faq")
    /\ sawAbsent' = ~file.exists
    /\ mainPc' = IF file.exists THEN "L61" ELSE "L66"
    /\ UNCHANGED << mainframe, filevars, faq_cache, faq, mtime, loaded,
                    yields, cache0, reads, readKind, failures >>

\* line 61: mtime = path.stat().st_mtime; a file deleted since line 60 makes
\* stat() raise, and the except clause of line 68 leads to line 70
Pull_Stat ==
    /\ mainPc = "L61"
    /\ IF file.exists
         THEN mtime' = file.mtime /\ mainPc' = "L62" /\ failures' = failures
         ELSE mtime' = mtime /\ mainPc' = "L70" /\ failures' = failures \cup {"faq"}
    /\ UNCHANGED << mainframe, filevars, faq_cache, faq, loaded, trace, yields,
                    cache0, reads, sawAbsent, readKind >>

\* faulty variant: the timestamp check is lost and every call reloads
NeedsReloadAlways(m, cached) == TRUE

\* faulty variant: a changed file is never noticed
NeedsReloadNever(m, cached) == FALSE

\* line 62: if mtime != _faq_cache["mtime"]
NeedsReload(m, cached) == m # cached

Pull_Compare ==
    /\ mainPc = "L62"
    /\ mainPc' = IF NeedsReload(mtime, faq_cache.mtime) THEN "L63" ELSE "L70"
    /\ UNCHANGED << mainframe, filevars, faq_cache, faq, mtime, loaded, histvars >>

\* line 63, right-hand side: _load_faq_from_disk(path)
Pull_Load ==
    /\ mainPc = "L63"
    /\ loaded' = load_faq_from_disk(file)
    /\ reads' = reads + 1
    /\ readKind' = IF file.exists THEN file.content.kind ELSE "absent"
    /\ failures' = IF file.exists /\ file.content.kind = "invalid"
                     THEN failures \cup {"faq"} ELSE failures
    /\ mainPc' = "L63s"
    /\ UNCHANGED << mainframe, filevars, faq_cache, faq, mtime, trace, yields,
                    cache0, sawAbsent >>

\* line 63, the assignment to _faq_cache["data"]
Pull_StoreData ==
    /\ mainPc = "L63s"
    /\ faq_cache' = [faq_cache EXCEPT !.data = loaded]
    /\ mainPc' = "L64"
    /\ UNCHANGED << mainframe, filevars, faq, mtime, loaded, histvars >>

\* line 64: _faq_cache["mtime"] = mtime
Pull_StoreMtime ==
    /\ mainPc = "L64"
    /\ faq_cache' = [faq_cache EXCEPT !.mtime = mtime]
    /\ mainPc' = "L70"
    /\ UNCHANGED << mainframe, filevars, faq, mtime, loaded, histvars >>

\* faulty variant: a missing file leaves the cached mapping in place
ResetDataKeep == faq_cache.data

\* line 66: _faq_cache["data"] = {}
ResetData == EmptyMap

Pull_ResetData ==
    /\ mainPc = "L66"
    /\ faq_cache' = [faq_cache EXCEPT !.data = ResetData]
    /\ mainPc' = "L67"
    /\ UNCHANGED << mainframe, filevars, faq, mtime, loaded, histvars >>

\* line 67: _faq_cache["mtime"] = 0.0
NEVER_LOADED == 0

Pull_ResetMtime ==
    /\ mainPc = "L67"
    /\ faq_cache' = [faq_cache EXCEPT !.mtime = NEVER_LOADED]
    /\ mainPc' = "L70"
    /\ UNCHANGED << mainframe, filevars, faq, mtime, loaded, histvars >>

\* line 70: return _faq_cache["data"], bound to `faq' by line 169
Pull_Return ==
    /\ mainPc = "L70"
    /\ faq' = faq_cache.data
    /\ mainPc' = "L170"
    /\ UNCHANGED << mainframe, filevars, faq_cache, mtime, loaded, histvars >>

(***************************************************************************)
(* tra_cuu_kien_thuc, lines 170-181.                                       *)
(***************************************************************************)
resolveframe == << envvars, textvars, calls, observer, cau_hoi, filevars,
                   faq_cache, faq, mtime, loaded, hvars, cache0, reads,
                   sawAbsent, readKind >>

\* line 170: if cau_hoi in faq
FaqHit(q, m) == q \in DOMAIN m

Resolve_Faq ==
    /\ mainPc = "L170"
    /\ IF FaqHit(cau_hoi, faq)
         THEN /\ ket_qua' = faq[cau_hoi]
              /\ yields' = Append(yields, [hit |-> TRUE, val |-> faq[cau_hoi]])
              /\ mainPc' = "returned"
         ELSE /\ ket_qua' = ket_qua
              /\ yields' = Append(yields, [hit |-> FALSE, val |-> ""])
              /\ mainPc' = "L173"
    /\ UNCHANGED << resolveframe, raising, trace, failures >>

\* faulty variant: the fallback language is tried first
StageLangSwapped(pc) == IF pc = "L173" THEN "en" ELSE "vi"

StageLang(pc) == IF pc = "L173" THEN "vi" ELSE "en"

\* lines 173-175: Wikipedia in Vietnamese
Resolve_WikiVi ==
    /\ mainPc = "L173"
    /\ \E w \in WikiOutcomes :
          LET r == tra_cuu_wikipedia(cau_hoi, StageLang("L173"), w) IN
          /\ ket_qua' = r
          /\ yields' = Append(yields, [hit |-> r # "" /\ ~Escapes(r), val |-> r])
          /\ mainPc' = IF Escapes(r) THEN "L247"
                       ELSE IF r # "" THEN "returned" ELSE "L177"
          /\ raising' = (raising \/ Escapes(r))
          /\ failures' = IF WikiFailed(w) THEN failures \cup {StageLang("L173")}
                         ELSE failures
    /\ trace' = Append(trace, StageLang("L173"))
    /\ UNCHANGED resolveframe

\* faulty variant: exhaustion returns the empty string
ExhaustedEmpty == ""

\* line 181
Exhausted == SENTINEL

\* lines 177-181: Wikipedia in English, then the sentinel
Resolve_WikiEn ==
    /\ mainPc = "L177"
    /\ \E w \in WikiOutcomes :
          LET r == tra_cuu_wikipedia(cau_hoi, StageLang("L177"), w) IN
          /\ ket_qua' = IF r # "" THEN r ELSE Exhausted
          /\ yields' = Append(yields, [hit |-> r # "" /\ ~Escapes(r), val |-> r])
          /\ mainPc' = IF Escapes(r) THEN "L247" ELSE "returned"
          /\ raising' = (raising \/ Escapes(r))
          /\ failures' = IF WikiFailed(w) THEN failures \cup {StageLang("L177")}
                         ELSE failures
    /\ trace' = Append(trace, StageLang("L177"))
    /\ UNCHANGED resolveframe

(***************************************************************************)
(* main(), lines 231-233 and 237-239: the answer is scored and printed     *)
(* (no effect on the state), then the loop asks again or main leaves.  The *)
(* locals of the finished call are dropped.                                *)
(***************************************************************************)
AfterCall ==
    /\ mainPc = "returned"
    /\ mainPc' = "session"
    /\ cau_hoi' = NoQuestion
    /\ faq' = EmptyMap
    /\ mtime' = 0
    /\ loaded' = EmptyMap
    /\ ket_qua' = ""
    /\ trace' = << >>
    /\ yields' = << >>
    /\ cache0' = faq_cache
    /\ reads' = 0
    /\ sawAbsent' = FALSE
    /\ readKind' = "none"
    /\ failures' = {}
    /\ UNCHANGED << envvars, textvars, calls, observer, raising, filevars, faq_cache, hvars >>

(***************************************************************************)
(* main(), lines 246-249: the finally clause.  stop() of an observer sets  *)
(* its stop flag; join() of a thread that was never started raises         *)
(* RuntimeError.                                                           *)
(***************************************************************************)
Finally_Stop ==
    /\ mainPc = "L247"
    /\ IF observer.state # "None"
         THEN observer' = [observer EXCEPT !.state = "stopped"] /\ mainPc' = "L249"
         ELSE observer' = observer /\ mainPc' = IF raising THEN "raised" ELSE "exited"
    /\ UNCHANGED << envvars, textvars, calls, raising, filevars, faq_cache, localvars,
                    hvars, histvars >>

Finally_Join ==
    /\ mainPc = "L249"
    /\ IF observer.started
         THEN /\ observer' = [observer EXCEPT !.state = "joined"]
              /\ mainPc' = IF raising THEN "raised" ELSE "exited"
              /\ raising' = raising
         ELSE /\ observer' = observer
              /\ mainPc' = "raised"
              /\ raising' = TRUE
    /\ UNCHANGED << envvars, textvars, calls, filevars, faq_cache, localvars, hvars, histvars >>

MainNext ==
    \/ MainStartWatcher
    \/ SessionLeave
    \/ SessionError
    \/ Resolve_Wikidata
    \/ Pull_Exists
    \/ Pull_Stat
    \/ Pull_Compare
    \/ Pull_Load
    \/ Pull_StoreData
    \/ Pull_StoreMtime
    \/ Pull_ResetData
    \/ Pull_ResetMtime
    \/ Pull_Return
    \/ Resolve_Faq
    \/ Resolve_WikiVi
    \/ Resolve_WikiEn
    \/ AfterCall
    \/ Finally_Stop
    \/ Finally_Join

Next ==
    \/ MainNext
    \/ WriteFile
    \/ DeleteFile

Spec == Init /\ [][Next]_vars

(***************************************************************************)
(* FAQFileHandler.on_modified, lines 78-85, run by the observer thread for *)
(* one event at a time.  The directory of faq.json is watched, so events   *)
(* of other files arrive too.                                              *)
(***************************************************************************)
hframe == << envvars, textvars, mainvars, localvars, histvars >>

InitWatch ==
    /\ InitCommon
    /\ WATCHDOG_AVAILABLE
    /\ args = [watch |-> TRUE, mode |-> "interactive"]
    /\ watching = TRUE
    /\ ScoreIdle
    /\ WikiIdle

Dispatch ==
    /\ Running
    /\ watching
    /\ hPc = "idle"
    /\ pending > 0
    /\ pending' = pending - 1
    /\ event' = FAQ_PATH
    /\ hPc' = "L80"
    /\ UNCHANGED << hframe, file, clock, faq_cache, hLoaded, hMtime >>

DispatchOther ==
    /\ Running
    /\ watching
    /\ hPc = "idle"
    /\ event' = OTHER_PATH
    /\ hPc' = "L80"
    /\ UNCHANGED << hframe, filevars, faq_cache, hLoaded, hMtime >>

\* faulty variant: every event is taken for an event of the watched file
SamePathAny(a, b) == TRUE

\* line 80: Path(event.src_path).resolve() == self._path.resolve()
SamePath(a, b) == a = b

H_PathCheck ==
    /\ hPc = "L80"
    /\ hPc' = IF SamePath(event, FAQ_PATH) THEN "L81" ELSE "idle"
    /\ UNCHANGED << hframe, filevars, faq_cache, event, hLoaded, hMtime >>

\* line 81, right-hand side: _load_faq_from_disk(self._path)
H_Load ==
    /\ hPc = "L81"
    /\ hLoaded' = load_faq_from_disk(file)
    /\ hPc' = "L81s"
    /\ UNCHANGED << hframe, filevars, faq_cache, event, hMtime >>

\* line 81, the assignment to _faq_cache["data"]
H_StoreData ==
    /\ hPc = "L81s"
    /\ faq_cache' = [faq_cache EXCEPT !.data = hLoaded]
    /\ hPc' = "L82"
    /\ UNCHANGED << hframe, filevars, event, hLoaded, hMtime >>

\* line 82, the condition: self._path.exists()
H_Exists ==
    /\ hPc = "L82"
    /\ IF file.exists
         THEN hMtime' = hMtime /\ hPc' = "L82s"
         ELSE hMtime' = NEVER_LOADED /\ hPc' = "L82w"
    /\ UNCHANGED << hframe, filevars, faq_cache, event, hLoaded >>

\* line 82: self._path.stat().st_mtime; a file deleted since the condition
\* makes stat() raise, and the except clause of line 84 discards the event
H_Stat ==
    /\ hPc = "L82s"
    /\ IF file.exists
         THEN hMtime' = file.mtime /\ hPc' = "L82w" /\ hLoaded' = hLoaded
         ELSE hMtime' = 0 /\ hPc' = "idle" /\ hLoaded' = EmptyMap
    /\ UNCHANGED << hframe, filevars, faq_cache, event >>

\* line 82, the assignment to _faq_cache["mtime"], and line 83
H_StoreMtime ==
    /\ hPc = "L82w"
    /\ faq_cache' = [faq_cache EXCEPT !.mtime = hMtime]
    /\ hPc' = "idle"
    /\ hLoaded' = EmptyMap
    /\ hMtime' = 0
    /\ UNCHANGED << hframe, filevars, event >>

HandlerNext ==
    \/ Dispatch
    \/ DispatchOther
    \/ H_PathCheck
    \/ H_Load
    \/ H_StoreData
    \/ H_Exists
    \/ H_Stat
    \/ H_StoreMtime

NextWatch ==
    \/ MainNext
    \/ WriteFile
    \/ DeleteFile
    \/ HandlerNext

SpecWatch == InitWatch /\ [][NextWatch]_vars

(***************************************************************************)
(* Scoring: do_ao_giac applied to an answer and a reference (lines 231 and *)
(* 237), then _print_result (lines 232 and 238).                           *)
(***************************************************************************)
InitScore ==
    /\ InitCommon
    /\ ~WATCHDOG_AVAILABLE
    /\ args = [watch |-> FALSE, mode |-> "single"]
    /\ watching = FALSE
    /\ scorePc = "L237"
    /\ cau_tra_loi_llm \in Answers
    /\ cau_tra_loi_tham_chieu \in References
    /\ diem = ZERO
    /\ verdict = ""
    /\ WikiIdle

\* line 237: diem = do_ao_giac(args.answer, tham_chieu)
Score ==
    /\ scorePc = "L237"
    /\ diem' = do_ao_giac(cau_tra_loi_llm, cau_tra_loi_tham_chieu)
    /\ scorePc' = "L238"
    /\ UNCHANGED << envvars, mainvars, filevars, faq_cache, localvars, hvars, histvars,
                    cau_tra_loi_llm, cau_tra_loi_tham_chieu, verdict, wikivars >>

\* line 238: _print_result(args.question, args.answer, tham_chieu, diem)
PrintResult ==
    /\ scorePc = "L238"
    /\ verdict' = print_verdict(diem)
    /\ scorePc' = "done"
    /\ UNCHANGED << envvars, mainvars, filevars, faq_cache, localvars, hvars, histvars,
                    cau_tra_loi_llm, cau_tra_loi_tham_chieu, diem, wikivars >>

NextScore ==
    \/ Score
    \/ PrintResult

SpecScore == InitScore /\ [][NextScore]_vars

(***************************************************************************)
(* tra_cuu_wikipedia statement by statement, for one question and one      *)
(* response of the encyclopedia.                                           *)
(***************************************************************************)
InitWiki ==
    /\ InitCommon
    /\ ~WATCHDOG_AVAILABLE
    /\ args = [watch |-> FALSE, mode |-> "single"]
    /\ watching = FALSE
    /\ ScoreIdle
    /\ wikiPc = "L136"
    /\ wiki_cau_hoi \in WikiQuestions
    /\ wikipedia_site \in WikiSites
    /\ search_results = << >>
    /\ best_title = << >>
    /\ requested = << >>
    /\ wiki_ret = ""

wikiframe == << envvars, mainvars, filevars, faq_cache, localvars, hvars, histvars,
                scorevars, wiki_cau_hoi, wikipedia_site >>

\* lines 136-138: search_results = wikipedia.search(cau_hoi)
W_Search ==
    /\ wikiPc = "L136"
    /\ IF wikipedia_site.raises
         THEN /\ wiki_ret' = ""                      \* line 150-151
              /\ wikiPc' = "done"
              /\ search_results' = search_results
         ELSE /\ search_results' = wikipedia_site.titles
              /\ IF wikipedia_site.titles = << >>
                   THEN wiki_ret' = "" /\ wikiPc' = "done"        \* line 138
                   ELSE wiki_ret' = wiki_ret /\ wikiPc' = "L139"
    /\ UNCHANGED << wikiframe, best_title, requested >>

\* lines 139-144: best_title = max(...); return "" if its ratio is below 0.5
W_Best ==
    /\ wikiPc = "L139"
    /\ best_title' = max_by_ratio(wiki_cau_hoi, search_results)
    /\ IF BelowHalf(RatioTo(wiki_cau_hoi, best_title'))
         THEN wiki_ret' = "" /\ wikiPc' = "done"
         ELSE wiki_ret' = wiki_ret /\ wikiPc' = "L146"
    /\ UNCHANGED << wikiframe, search_results, requested >>

\* lines 145-149: summary = wikipedia.summary(best_title, ...); return summary
W_Summary ==
    /\ wikiPc = "L146"
    /\ \E o \in WikiSummary :
          /\ requested' = Append(requested, [title |-> best_title, outcome |-> o])
          /\ wiki_ret' = IF o = "text" THEN SummaryText(WIKI_LANG) ELSE ""
    /\ wikiPc' = "done"
    /\ UNCHANGED << wikiframe, search_results, best_title >>

NextWiki ==
    \/ W_Search
    \/ W_Best
    \/ W_Summary

SpecWiki == InitWiki /\ [][NextWiki]_vars


(***************************************************************************)
(* Properties of the resolver.                                             *)
(***************************************************************************)
Returned == mainPc = "returned"
NoHit == \A i \in 1..Len(yields) : ~yields[i].hit

\* C1: the stages of a call are invoked in the order wikidata, faq, vi, en,
\* each at most once; a stage is invoked only after every earlier stage has
\* completed without a result; and the call returns the result of the stage
\* that yielded one (the sentinel when none of the four did).
C1_StageOrder ==
    /\ Len(trace) <= Len(Order)
    /\ \A i \in 1..Len(trace) : trace[i] = Order[i]
    /\ Len(yields) <= Len(trace)
    /\ Len(trace) <= Len(yields) + 1
    /\ \A i \in 1..Len(yields) : yields[i].hit => i = Len(trace) /\ Returned
    /\ Returned =>
          /\ Len(yields) = Len(trace)
          /\ IF yields[Len(yields)].hit
               THEN ket_qua = yields[Len(yields)].val
               ELSE Len(trace) = Len(Order) /\ ket_qua = SENTINEL

\* a call returns the Vietnamese summary after wikidata and the override
\* store gave nothing
C1_Witness ==
    /\ Returned
    /\ trace = << "wikidata", "faq", "vi" >>
    /\ yields[3].hit
    /\ ket_qua = SummaryText("vi")

FileHasKey(q) ==
    file.exists /\ file.content.kind = "object" /\ q \in DOMAIN file.content.map

\* C2: when the structured lookup yields a result, the call returns it
\* without consulting the override store: _load_faq_if_updated is not
\* invoked, the file is not read, and _faq_cache is as it was when the call
\* began, whatever the file holds.
C2_StructuredWins ==
    (Returned /\ yields[1].hit) =>
        /\ ket_qua = yields[1].val
        /\ ket_qua = tra_cuu_wikidata(cau_hoi, "label")
        /\ trace = << "wikidata" >>
        /\ reads = 0
        /\ faq_cache = cache0

\* the structured lookup wins for a question that is a key of a file
\* changed since the last load
C2_Witness ==
    /\ Returned
    /\ yields[1].hit
    /\ FileHasKey(cau_hoi)
    /\ file.mtime # faq_cache.mtime
    /\ ket_qua # file.content.map[cau_hoi]

\* C3: every call returns a non-empty text string, never "" and never None.
C3_NonEmptyResult ==
    Returned => ket_qua \notin {"", NONE}

\* C4: when the structured lookup is empty, the question is no key of the
\* mapping and both encyclopedic lookups are empty, the call returns the
\* fixed sentinel string.
C4_ExhaustedSentinel ==
    (Returned /\ Len(yields) = Len(Order) /\ NoHit) =>
        /\ ket_qua = SENTINEL
        /\ ket_qua # ""
        /\ ~raising

\* all four stages were tried and none yielded, with an override file that
\* holds other keys
C4_Witness ==
    /\ Returned
    /\ Len(yields) = Len(Order)
    /\ NoHit
    /\ cau_hoi \notin DOMAIN faq
    /\ faq # EmptyMap

(***************************************************************************)
(* Properties of the override store.  At pc L170 _load_faq_if_updated has  *)
(* just returned and `faq' holds what it returned.                         *)
(***************************************************************************)
PullReturned == mainPc = "L170"
ReadMalformed == readKind \in {"invalid", "array"}
NeverLoaded == [mtime |-> NEVER_LOADED, data |-> EmptyMap]
StatSucceeded == mtime # 0

\* C5 as claimed: a call that reads a malformed file returns the mapping
\* the cache held before.
C5_KeepsPreviousMapping ==
    (PullReturned /\ ReadMalformed) => faq = cache0.data

\* C5 as amended: a call that reads a malformed file (invalid JSON, or no
\* object) returns the empty mapping and leaves it in the cache, whatever
\* the cache held before; it returns normally.
C5_MalformedGivesEmpty ==
    (PullReturned /\ ReadMalformed) =>
        /\ faq = EmptyMap
        /\ faq_cache.data = EmptyMap
        /\ faq_cache.mtime = mtime
        /\ ~raising

\* a valid mapping had been loaded before the malformed content was read
C5_Witness ==
    /\ PullReturned
    /\ ReadMalformed
    /\ cache0.data # EmptyMap
    /\ cache0.mtime # 0

\* C6: whenever the cached timestamp is the file's modification time, the
\* cached mapping is the one parsed from the file's content.
C6_MappingNotOlderThanTimestamp ==
    (file.exists /\ faq_cache.mtime = file.mtime) =>
        faq_cache.data = load_faq_from_disk(file)

\* a writer has stored the new mapping and not yet its timestamp
MainHalfWritten == mainPc \in {"L64", "L67"}
HandlerHalfWritten == hPc \in {"L82", "L82s", "L82w"}
\* a thread is at a statement that reads or writes _faq_cache
MainAtCache == mainPc \in {"L62", "L63s", "L64", "L66", "L67", "L70"}
HandlerAtCache == hPc \in {"L81s", "L82w"}

\* C7: the two fields of _faq_cache are replaced in one step: no thread is
\* about to read or write the record while the other thread has stored a
\* new mapping and not yet its timestamp.
C7_AtomicReplace ==
    /\ ~(HandlerHalfWritten /\ MainAtCache)
    /\ ~(MainHalfWritten /\ HandlerAtCache)

\* C8: a call that finds the file's modification time equal to the cached
\* timestamp returns the cached mapping without reading the file and leaves
\* _faq_cache as it was; so does every further call.
C8_UnchangedIsIdempotent ==
    (mainPc \in {"L70", "L170"} /\ StatSucceeded /\ mtime = cache0.mtime) =>
        /\ reads = 0
        /\ faq_cache = cache0
        /\ PullReturned => faq = cache0.data

\* the second call in a row returns the valid mapping loaded by the first
C8_Witness ==
    /\ PullReturned
    /\ StatSucceeded
    /\ mtime = cache0.mtime
    /\ calls = 2
    /\ FileHasKey(Q_CAPITAL)
    /\ faq = file.content.map

\* C9: a call that finds no file returns the empty mapping and leaves
\* _faq_cache = {mtime: 0.0, data: {}}; a later call that finds the file
\* again, with the cache in that state, reads it.
C9_AbsentResets ==
    /\ (PullReturned /\ sawAbsent) =>
          /\ faq = EmptyMap
          /\ faq_cache = NeverLoaded
          /\ reads = 0
    /\ (PullReturned /\ StatSucceeded /\ cache0 = NeverLoaded) =>
          /\ reads = 1
          /\ faq_cache.mtime = mtime
          /\ faq = loaded

\* the file is missing when a call runs with a loaded mapping in the cache
C9_Witness ==
    /\ PullReturned
    /\ sawAbsent
    /\ cache0.data # EmptyMap
    /\ cache0.mtime # NEVER_LOADED

InSession == mainPc \notin {"start", "L247", "L249", "exited", "raised"}

\* C10: under --watch with watchdog available, once start_faq_watcher has
\* returned and until main shuts the watcher down, the observer is running
\* with a FAQFileHandler scheduled for faq.json, so that every modification
\* of the file is followed by on_modified.
C10_WatcherRegistered ==
    (InSession /\ args.watch /\ WATCHDOG_AVAILABLE) =>
        /\ observer.state = "started"
        /\ observer.started
        /\ FAQ_PATH \in observer.watches

(***************************************************************************)
(* Properties of the pull model without the watcher.                       *)
(***************************************************************************)
\* the file is as the current call's stat() saw it: not written or deleted since
FileAsStatted == file.exists /\ file.mtime = mtime /\ StatSucceeded

\* C11: without watchdog start_faq_watcher returns None and no thread runs
\* on_modified; and a call that finds the file, holding a valid mapping M,
\* with a modification time different from the cached one returns exactly
\* M and stores the file's modification time in _faq_cache.
C11_PullModelAlone ==
    /\ (~WATCHDOG_AVAILABLE /\ mainPc # "start") =>
          /\ observer = ObserverNone
          /\ hPc = "idle"
          /\ pending = 0
    /\ (PullReturned /\ FileAsStatted /\ file.content.kind = "object"
          /\ mtime # cache0.mtime) =>
          /\ faq = file.content.map
          /\ faq_cache = [mtime |-> file.mtime, data |-> file.content.map]
          /\ reads = 1

\* --watch without watchdog: the file was rewritten with a new valid mapping
\* after an earlier load, and the call returns the new mapping
C11_Witness ==
    /\ ~WATCHDOG_AVAILABLE
    /\ args.watch
    /\ observer = ObserverNone
    /\ PullReturned
    /\ FileAsStatted
    /\ file.content.kind = "object"
    /\ cache0.mtime # NEVER_LOADED
    /\ mtime # cache0.mtime
    /\ cache0.data # file.content.map
    /\ faq = file.content.map

(***************************************************************************)
(* Properties of the error handling.                                       *)
(***************************************************************************)
InCall == cau_hoi # NoQuestion

\* C12: no exception leaves tra_cuu_kien_thuc.  A structured or
\* encyclopedic stage whose external query fails yields the empty string; a
\* _load_faq_if_updated call whose stat() fails returns the cached mapping
\* and one that cannot parse the file returns the empty mapping; and after
\* a failed stage without a result the call goes on to the next stage, or to
\* the sentinel after the last.
C12_NoFailurePropagates ==
    /\ InCall => ~raising /\ mainPc \notin {"L247", "L249", "raised"}
    /\ \A i \in 1..Len(yields) :
          (trace[i] \in failures /\ trace[i] # "faq") =>
              ~yields[i].hit /\ yields[i].val = ""
    /\ ("faq" \in failures /\ PullReturned) =>
          faq = IF readKind = "invalid" THEN EmptyMap ELSE cache0.data
    /\ \A i \in 1..Len(yields) :
          (trace[i] \in failures /\ ~yields[i].hit /\ Returned) =>
              IF i < Len(Order) THEN Len(trace) > i ELSE ket_qua = SENTINEL

\* every stage of one call failed
C12_Witness ==
    /\ Returned
    /\ failures = {"wikidata", "faq", "vi", "en"}
    /\ ket_qua = SENTINEL

(***************************************************************************)
(* Properties of the scoring.                                              *)
(***************************************************************************)
Scored == scorePc \in {"L238", "done"}
TokenCount(text) ==
    Cardinality({i \in 1..Len(text) :
                    ~IsSpace(text[i]) /\ (i = 1 \/ IsSpace(text[i - 1]))})
SIX_TENTHS == [num |-> 6, den |-> 10]
SEVEN_TENTHS == [num |-> 7, den |-> 10]

\* C13: do_ao_giac works on the trimmed strings.  With at most two tokens
\* in the answer the score is 1.0 if the normalized answer is a substring
\* of the normalized reference, otherwise the similarity ratio r if
\* r > 0.6 and 0.0 if not, so never in (0, 0.6]; with more than two tokens
\* it is r.  The score is always in [0.0, 1.0].
C13_TwoBranchPolicy ==
    Scored =>
        LET ans == strip(cau_tra_loi_llm)
            ref == strip(cau_tra_loi_tham_chieu)
            r == SequenceMatcher_ratio(lower(ans), lower(ref))
            short == TokenCount(ans) <= 2
            contained == Contains(normalize(ans), normalize(ref))
        IN  /\ (short /\ contained) => Same(diem, ONE)
            /\ (short /\ ~contained /\ Less(SIX_TENTHS, r)) => Same(diem, r)
            /\ (short /\ ~contained /\ ~Less(SIX_TENTHS, r)) => Same(diem, ZERO)
            /\ short => ~(Less(ZERO, diem) /\ ~Less(SIX_TENTHS, diem))
            /\ ~short => Same(diem, r)
            /\ ~Less(diem, ZERO) /\ ~Less(ONE, diem)

\* a short answer that is not contained and whose ratio is exactly 0.6
C13_Witness ==
    /\ Scored
    /\ TokenCount(strip(cau_tra_loi_llm)) <= 2
    /\ ~Contains(normalize(strip(cau_tra_loi_llm)), normalize(strip(cau_tra_loi_tham_chieu)))
    /\ Same(SequenceMatcher_ratio(lower(strip(cau_tra_loi_llm)),
                                  lower(strip(cau_tra_loi_tham_chieu))), SIX_TENTHS)
    /\ Same(diem, ZERO)

\* C14: an answer scored against the sentinel of the exhausted resolver
\* gets a score below 0.7 and the verdict "possible hallucination".
C14_SentinelScoresLow ==
    (scorePc = "done" /\ cau_tra_loi_tham_chieu = SentinelChars) =>
        /\ Less(diem, SEVEN_TENTHS)
        /\ verdict = HALLUCINATION

(***************************************************************************)
(* Properties of the title selection.                                      *)
(***************************************************************************)
WikiDone == wikiPc = "done"
Candidates == {wikipedia_site.titles[i] : i \in 1..Len(wikipedia_site.titles)}
Highest(t) ==
    \A u \in Candidates : ~Less(RatioTo(wiki_cau_hoi, t), RatioTo(wiki_cau_hoi, u))

\* C17: tra_cuu_wikipedia returns "" when the search gives no titles or
\* when every title's ratio to the question is below 0.5; otherwise it asks
\* for the summary of one title only, a title of the highest ratio (0.5 is
\* enough), and returns that summary, or "" if the fetch fails.  No summary
\* is asked for a title below 0.5 or below another title.
C17_BestTitleOnly ==
    WikiDone =>
        /\ (wikipedia_site.raises \/ wikipedia_site.titles = << >>) =>
              wiki_ret = "" /\ requested = << >>
        /\ (\A t \in Candidates : Less(RatioTo(wiki_cau_hoi, t), HALF)) =>
              wiki_ret = "" /\ requested = << >>
        /\ (\E t \in Candidates : ~Less(RatioTo(wiki_cau_hoi, t), HALF)) =>
              /\ Len(requested) = 1
              /\ requested[1].title \in Candidates
              /\ Highest(requested[1].title)
              /\ wiki_ret = IF requested[1].outcome = "text"
                            THEN SummaryText(WIKI_LANG) ELSE ""
        /\ \A i \in 1..Len(requested) :
              /\ ~Less(RatioTo(wiki_cau_hoi, requested[i].title), HALF)
              /\ Highest(requested[i].title)
        /\ wiki_ret = tra_cuu_wikipedia(cau_hoi, WIKI_LANG,
              [search |-> SearchClass(wiki_cau_hoi, wikipedia_site),
               summary |-> IF requested = << >> THEN "text"
                           ELSE requested[1].outcome])

\* the second of two titles is the better one, at a ratio of exactly 0.5
C17_Witness ==
    /\ WikiDone
    /\ Len(wikipedia_site.titles) = 2
    /\ Less(RatioTo(wiki_cau_hoi, wikipedia_site.titles[1]), HALF)
    /\ Same(RatioTo(wiki_cau_hoi, wikipedia_site.titles[2]), HALF)
    /\ Len(requested) = 1
    /\ requested[1].title = wikipedia_site.titles[2]
    /\ wiki_ret = SummaryText(WIKI_LANG)

(***************************************************************************)
(* Properties of the shutdown of main().                                   *)
(***************************************************************************)
MainEnded == mainPc \in {"exited", "raised"}

\* C16: on every exit path of main a watcher obtained from
\* start_faq_watcher is stopped and then joined before main returns, and
\* only an observer that was started is ever stopped or joined.
C16_ShutdownLifecycle ==
    /\ observer.state \in {"stopped", "joined"} => observer.started
    /\ (MainEnded /\ observer # ObserverNone) => observer.state = "joined"

(***************************************************************************)
(* Properties of the watcher handler.  A step of on_modified is a step     *)
(* that changes hPc.                                                       *)
(***************************************************************************)
HandlerStep == hPc' # hPc

\* C15: on_modified for the watched path reads the file and stores the
\* mapping and the modification time whatever the cached timestamp is; for
\* another path it leaves _faq_cache as it is; an error while handling is
\* discarded: the handler returns, and main is not disturbed.
C15_HandlerEffect ==
    [][ HandlerStep =>
          /\ (hPc = "L80" /\ event = FAQ_PATH) => hPc' = "L81"
          /\ hPc = "L81" => hPc' = "L81s" /\ hLoaded' = load_faq_from_disk(file)
          /\ hPc = "L81s" => hPc' = "L82" /\ faq_cache' = [faq_cache EXCEPT !.data = hLoaded]
          /\ (hPc = "L82w" /\ hPc' = "idle") =>
                faq_cache' = [faq_cache EXCEPT !.mtime = hMtime]
          /\ (hPc = "L80" /\ event = OTHER_PATH) => hPc' = "idle"
          /\ event' = OTHER_PATH => faq_cache' = faq_cache
          /\ (hPc = "L82s" /\ ~file.exists) => hPc' = "idle" /\ faq_cache' = faq_cache
          /\ mainPc' = mainPc /\ raising' = raising
          /\ (hPc' = "idle" /\ pending' > 0 /\ Running) => (ENABLED Dispatch)'
      ]_vars

\* the handler has read and stored the mapping of a file whose modification
\* time is the cached one
C15_Witness ==
    /\ hPc = "L82w"
    /\ file.exists
    /\ hMtime = file.mtime
    /\ faq_cache.mtime = file.mtime
    /\ faq_cache.data = hLoaded

(***************************************************************************)
(* Convergence of the two writers of _faq_cache.                           *)
(***************************************************************************)
InPull == mainPc \in {"L60", "L61", "L62", "L63", "L63s", "L64", "L66", "L67", "L70"}

\* no on_modified event pending or being handled, no _load_faq_if_updated call in flight
Quiescent == hPc = "idle" /\ pending = 0 /\ ~InPull

\* the next _load_faq_if_updated call would find the timestamp unchanged
\* and return the cached mapping as it is
NextPullKeepsCache == file.exists /\ faq_cache.mtime = file.mtime

\* C18: when every pending event and every call in flight has completed
\* and the file holds a valid mapping M, the next _load_faq_if_updated call
\* returns M: the cache does not hold an older mapping together with the
\* file's current modification time.
C18_Converges ==
    (Quiescent /\ file.exists /\ file.content.kind = "object" /\ NextPullKeepsCache) =>
        faq_cache.data = file.content.map

====
